---- MODULE Spec2Model ----
(***************************************************************************)
(* The multi-mailbox IMAP worker (MailboxManager, reconcileAndManage-      *)
(* Mailboxes, pollManagedMailboxes) as a state machine.  An action is the  *)
(* answer of the store, of the IMAP server, of the parser or of the        *)
(* webhook that the code awaits, followed by the synchronous code up to    *)
(* the next await whose answer matters: an await between two steps that no *)
(* other handler can tell apart is folded into the step before it.         *)
(***************************************************************************)
EXTENDS Integers, Sequences, FiniteSets, TLC, Bags

\* ------------------------------------------------------------- bounds
\* Highest message identifier (UID) the remote servers hand out.
MaxUid == 3
\* Number of MailboxManager objects alive at once that are out of
\* managedMailboxes (with a timer pending or a connect() or poll in flight).
MaxStale == 1
\* Number of failures (store, IMAP, parser, webhook, lost session, crash)
\* injected into one mailbox's pipeline (Spec).
MaxFaults == 2
\* Number of failures injected where the roster changes or the mailboxes are
\* several (SpecRoster, SpecFleet).
MaxFleetFaults == 1
\* Number of changes of the mailbox's active flag by the control plane
\* (SpecRoster), and of the mailboxes' active flags (SpecFleet).
MaxToggles == 2
MaxFleetToggles == 1
\* Number of messages that arrive in the mailbox (SpecRoster) and in the
\* fleet's mailboxes (SpecFleet).
MaxArrivals == 2
MaxFleetArrivals == 1
\* Number of reconnect timers one manager may have pending.
MaxTimers == 1
MaxFails == 2
MaxLosses == 8
MaxWorkerFaults == 2
MaxWorkerArrivals == 2
MaxWorkerPolls == 2
MaxShutdownFaults == 1
MaxElapsed == 40000
MaxTimerLag == 1
Epoch == 100000
RandomDenominator == 10000

\* The mailboxes of the control-plane store, by id.
Mailboxes == {1, 2}
Uids == 1..MaxUid
Mgrs == 1..(Cardinality(Mailboxes) + MaxStale)

VARIABLES
  known,       \* the mailboxes that table mailboxes holds
  active,      \* mailboxes.active /\ instance_id = INSTANCE_ID, per mailbox
  rowExists,   \* mailbox_sync_status has a row for the mailbox
  dbCursor,    \* mailbox_sync_status.last_processed_uid
  dbInit,      \* mailbox_sync_status.initial_sync_completed_at is set
  emails,      \* table emails: the bag of the <<mailbox_id, uid>> of its rows
  remote,      \* UIDs present in the remote INBOX
  uidNext,     \* the remote INBOX's UIDNEXT
  posts,       \* webhook calls issued, per mailbox and uid
  webhookUrl,  \* process.env.WEBHOOK_URL is set
  managed,     \* managedMailboxes: mailbox id -> manager (0: no entry)
  mgr,         \* the MailboxManager objects alive
  rec,         \* the reconcile pass in flight
  started,     \* main() has set up the two intervals
  faults,      \* failures still to inject
  toggles,     \* roster changes still to make
  arrivals,    \* messages still to arrive
  cyc,         \* per manager: what the poll cycle in flight has done
  hist,        \* per mailbox: what has happened to it
  overlapped,  \* mailboxes that have had two managers alive at once
  worker,      \* the single-mailbox worker (worker.js) of mailbox WorkerMailbox
  sigint,      \* where the SIGINT handler of main() is
  clock        \* Date.now() and the managers' timing fields

vars == <<known, active, rowExists, dbCursor, dbInit, emails, remote, uidNext,
          posts, webhookUrl, managed, mgr, rec, started, faults, toggles,
          arrivals, cyc, hist, overlapped, worker, sigint, clock>>

storeVars == <<rowExists, dbCursor, dbInit, emails>>
remoteVars == <<remote, uidNext, arrivals>>
envVars == <<known, active, webhookUrl, toggles, worker, sigint, clock>>
procVars == <<managed, mgr, rec, started, cyc, overlapped>>

\* ------------------------------------------------------------ helpers
Max(S) == CHOOSE x \in S : \A y \in S : y <= x
Min(S) == CHOOSE x \in S : \A y \in S : x <= y

RECURSIVE Ascending(_)
\* The elements of a set of UIDs in ascending order (the order of an IMAP
\* FETCH response stream).
Ascending(S) == IF S = {} THEN <<>> ELSE <<Min(S)>> \o Ascending(S \ {Min(S)})

\* const RECONNECT_DELAY_MS = 30000
RECONNECT_DELAY_MS == 30000

\* const POLLING_INTERVAL_BASE_MS = 20000
POLLING_INTERVAL_BASE_MS == 20000

\* The factor of Math.random() in the constructor.
POLLING_JITTER_MS == 5000

\* setInterval(pollManagedMailboxes, 5000)
DISPATCH_INTERVAL_MS == 5000

\* this.pollingInterval = POLLING_INTERVAL_BASE_MS +
\* Math.floor(Math.random() * 5000), for Math.random() = x / RandomDenominator
\* (0 <= x < RandomDenominator).
PollingIntervalOf(x) ==
  POLLING_INTERVAL_BASE_MS + ((x * POLLING_JITTER_MS) \div RandomDenominator)

\* The values of Math.random() tried: the least, the middle, the greatest.
Randoms == {0, RandomDenominator \div 2, RandomDenominator - 1}

\* A dispatcher that polls a manager as soon as its interval has elapsed.
DueAtLeast(now, lastChecked, pollingInterval) ==
  now - lastChecked >= pollingInterval

\* if (Date.now() - manager.lastChecked > manager.pollingInterval)
Due(now, lastChecked, pollingInterval) ==
  now - lastChecked > pollingInterval

\* The delays d of the reconnects scheduled so far, and one more of ms
\* milliseconds (the last MaxFails are kept).
Scheduled(d, ms) ==
  IF Len(d) < MaxFails THEN Append(d, ms) ELSE Append(Tail(d), ms)

\* Table emails holds a row of mailbox m with uid u.
Stored(m, u) == BagIn(<<m, u>>, emails)

\* A table emails without its UNIQUE constraint.
UniqueViolationNever(rows, e) == FALSE

\* UNIQUE (mailbox_id, uid): the insert of a row e into the rows of table
\* emails is refused (code 23505) when a row has e's mailbox_id and uid.
UniqueViolation(rows, e) == BagIn(e, rows)

\* A MailboxManager right after its constructor.  Two fields are not the
\* program's: authFailed, a connect() or a poll of this manager has failed
\* with AUTHENTICATIONFAILED; delays, the delays of the reconnects that its
\* failed connect() calls have scheduled since its last session was opened.
NewManager(m) ==
  [mb |-> m, loaded |-> FALSE, cursor |-> 0, init |-> FALSE,
   client |-> "null", isConnecting |-> FALSE, isPolling |-> FALSE,
   timers |-> 0, cpc |-> "idle", uidNext |-> 0, exists |-> FALSE,
   latestUID |-> 0, authFailed |-> FALSE, delays |-> <<>>,
   ppc |-> "idle", lastUID |-> 0, queue |-> <<>>, cur |-> 0]

\* A slot of mgr that holds no manager.
NoManager == NewManager(0)

\* What a manager's poll cycle in flight has done so far (seen: the remote
\* INBOX when it fetched; replay: the FETCH returned messages and a row was
\* stored for each already; c0: the durable cursor when it fetched; ins: rows
\* it inserted; nposts: webhook calls it issued; conflicts: identifiers whose
\* insert hit 23505; hookFailed: identifiers whose webhook call failed;
\* clean: no step of it failed and no insert hit 23505), how many
\* pipelines the manager runs (inflight), and failedAt: the manager's
\* last_processed_uid when the lock or the FETCH of its last cycle failed,
\* -1 when they did not or a later FETCH of the manager was answered.
NoCycle == [seen |-> {}, replay |-> FALSE, c0 |-> 0, clean |-> TRUE,
            ins |-> {}, nposts |-> 0, conflicts |-> {}, hookFailed |-> {},
            inflight |-> 0, failedAt |-> -1]

\* No reconcile pass in flight.  Of the last pass that completed: authGone,
\* the roster mailboxes whose entry of managedMailboxes a poll's catch block
\* deleted while the pass ran; missed, those without an entry when it
\* completed; removed, the mailboxes whose entry its removal loop deleted;
\* extra, the mailboxes out of its roster that had an entry when it completed.
RecIdle == [pc |-> "idle", roster |-> {}, todo |-> {}, cur |-> 0, k |-> 0,
            authGone |-> {}, missed |-> {}, removed |-> {}, extra |-> {}]

\* What has happened to a mailbox: opened/pre record the first session opened
\* on it (the UIDs then present); baseVal/baseN/baseEmpty/baseRows the first
\* baseline written (the cursor value, the UIDNEXT and the emptiness of the
\* INBOX its connect() had read, the mailbox's rows in emails then); retry
\* the identifiers whose insert failed with an error other than 23505 and
\* that are not stored yet; auth, a poll of the mailbox has failed with
\* AUTHENTICATIONFAILED in this process, and authRows, the rows of the other
\* mailboxes in emails at the last such failure; offline, the messages that
\* arrived while the mailbox was baselined and offline and that no poll has
\* fetched yet; parsed and unparsed, the identifiers whose source
\* simpleParser has parsed and those on whose source it has thrown.
NoHistory == [opened |-> FALSE, pre |-> {}, baseN |-> 0, baseEmpty |-> FALSE,
              baseVal |-> -1, baseRows |-> 0, retry |-> {}, offline |-> {},
              auth |-> FALSE, authRows |-> 0, parsed |-> {},
              unparsed |-> {}]

\* A poll that starts from identifier 0 whatever the cursor is.
LastUIDZero(r) == 0

\* const lastUID = this.syncStatus.last_processed_uid
LastUID(r) == r.cursor

\* A loop without the skip of identifiers at or below lastUID.
SkipsNothing(uid, lastUID) == FALSE

\* A loop that skips the identifiers below lastUID only.
SkipsBelow(uid, lastUID) == uid < lastUID

\* if (msg.uid <= lastUID) continue
Skips(uid, lastUID) == uid <= lastUID

\* A pipeline that takes a conflicting insert for a saved row.
AfterSaveAlways(r, saved) == [r EXCEPT !.ppc = "cursor"]

\* if (savedEmailData) { await this.updateSyncStatus(...); ... }: a row
\* returned goes on to the cursor write, null to the next message.
AfterSave(r, saved) ==
  IF saved THEN [r EXCEPT !.ppc = "cursor"]
  ELSE [r EXCEPT !.ppc = "next", !.cur = 0]

\* The elements of a sequence.
Range(q) == {q[i] : i \in 1..Len(q)}

\* client.logout(): an open or opening session becomes closed (client.closed
\* is read as true from then on).
Logout(c) == IF c \in {"new", "open"} THEN "closed" ELSE c

\* The guard of connect().
ConnectGuard(r) == ~(r.isConnecting \/ r.client \in {"new", "open"})

\* connect() up to its first await.
ConnectCall(r) ==
  IF ConnectGuard(r)
  THEN [r EXCEPT !.isConnecting = TRUE, !.client = "new", !.cpc = "open"]
  ELSE r

\* A baseline of UIDNEXT - 1 whatever the INBOX holds.
LatestUIDUnguarded(S, n) == n - 1

\* mailbox.exists ? mailbox.uidNext - 1 : 0, for INBOX content S with UIDNEXT n.
LatestUID(S, n) == IF S # {} THEN n - 1 ELSE 0

\* n messages arrive in the remote INBOX of m and take UIDNEXT onwards.  Only
\* mailboxOpen and FETCH read the INBOX, so the arrivals since the last read
\* are made when one of them reads it.
Arrive(m, n) ==
  /\ uidNext[m] + n <= MaxUid + 1
  /\ n <= arrivals
  /\ arrivals' = arrivals - n
  /\ remote' = [remote EXCEPT ![m] = @ \cup (uidNext[m]..(uidNext[m] + n - 1))]
  /\ uidNext' = [uidNext EXCEPT ![m] = @ + n]

\* The messages of INBOX content S an IMAP server returns for the UID range
\* n:* : * is the highest UID present and a range is unordered, so a range
\* that starts above it still holds the highest message.
FetchRange(S, n) ==
  IF S = {} THEN {}
  ELSE LET top == Max(S)
           lo == IF n <= top THEN n ELSE top
           hi == IF n <= top THEN top ELSE n
       IN {u \in S : lo <= u /\ u <= hi}

\* A manager no code can reach any more: out of managedMailboxes, not the one
\* the reconcile pass works on, no timer pending, no connect() or poll in
\* flight.
Dead(r, k, mg, rc) ==
  /\ r.mb # 0
  /\ mg[r.mb] # k
  /\ ~(rc.pc # "idle" /\ rc.k = k)
  /\ r.timers = 0 /\ r.cpc = "idle" /\ r.ppc = "idle"

\* The step's result: managedMailboxes mg, the managers ms, the pass rc and
\* the cycles cy, with the slots of dead managers freed.
Commit(mg, ms, rc, cy) ==
  /\ managed' = mg
  /\ rec' = rc
  /\ mgr' = [k \in Mgrs |-> IF Dead(ms[k], k, mg, rc) THEN NoManager ELSE ms[k]]
  /\ cyc' = [k \in Mgrs |-> IF Dead(ms[k], k, mg, rc) \/ ms[k].mb = 0
                            THEN NoCycle ELSE cy[k]]
  /\ started' = (started \/ rc.pc = "idle")
  /\ overlapped' = overlapped \cup
       {m \in Mailboxes :
          \E j, k \in Mgrs : j # k /\ ms[j].mb = m /\ ms[k].mb = m
                             /\ ~Dead(ms[j], j, mg, rc) /\ ~Dead(ms[k], k, mg, rc)}

Fault == faults > 0 /\ faults' = faults - 1

\* ------------------------------------------------------------- Init
\* ------------------------------------------- the single-mailbox worker
\* const RECONNECT_DELAY_BASE_MS = 5000; const RECONNECT_DELAY_MAX_MS = 300000
RECONNECT_DELAY_BASE_MS == 5000
RECONNECT_DELAY_MAX_MS == 300000

\* process.env.MAILBOX_ID
WorkerMailbox == 1

\* worker.js right after its module body has run and main() was called:
\* initializeState() is awaited.  state is imapConnection.state ("none": no
\* connection object yet); box, where the openBox callback of handleReady
\* is; timer, the delay of the pending reconnect timeout (0: none).  Two
\* fields are not the program's: losses, the reconnects scheduled by
\* handleEnd since the last 'ready'; peak, the longest delay scheduled so far.
\* jobs: the message callbacks of syncMissingEmails in flight, each with the
\* poll it belongs to (gen), its uid, where it is (pc) and whether its
\* saveEmailToDb returned the row (saved); failed (not the program's): the
\* uids whose save threw and that are not stored.
NoWorker ==
  [pc |-> "main", init |-> FALSE, cursor |-> 0, state |-> "none",
   box |-> "idle", polling |-> FALSE,
   currentReconnectDelay |-> RECONNECT_DELAY_BASE_MS, isReconnecting |-> FALSE,
   timer |-> 0, losses |-> 0, peak |-> 0, jobs |-> {}, failed |-> {}]

\* No SIGINT has been received (pc "none").  Then the handler awaits the
\* disconnect() of the manager of mailbox cur ("closing", todo: the entries
\* of managedMailboxes still to visit), the 2000 ms timeout of process.exit
\* is pending ("grace"), and the process has exited ("exited").
NoSignal == [pc |-> "none", cur |-> 0, todo |-> {}]

\* Date.now() (now), and of the manager in each place of the process its
\* lastChecked (0 from the constructor) and its pollingInterval, with the
\* times at which its last two polls passed the guard (-1: none).
NoClock == [now |-> Epoch,
            lastChecked |-> [k \in Mgrs |-> 0],
            pollingInterval |-> [k \in Mgrs |-> POLLING_INTERVAL_BASE_MS],
            prevStart |-> [k \in Mgrs |-> -1],
            lastStart |-> [k \in Mgrs |-> -1]]

\* The process has just started: no manager, no pass; the store holds no sync
\* row and no message of the mailboxes; each INBOX is empty, a new one
\* (UIDNEXT 1) or one whose first message was deleted.  on: the mailboxes, all
\* active; hooks: the values WEBHOOK_URL may have (set or not).
Start(on, hooks, nfaults, ntoggles, narrivals) ==
  /\ known = on
  /\ active = [m \in Mailboxes |-> m \in on]
  /\ rowExists = [m \in Mailboxes |-> FALSE]
  /\ dbCursor = [m \in Mailboxes |-> 0]
  /\ dbInit = [m \in Mailboxes |-> FALSE]
  /\ emails = EmptyBag
  /\ uidNext \in [Mailboxes -> 1..2]
  /\ \A m \in Mailboxes : m \notin on => uidNext[m] = 1
  /\ remote = [m \in Mailboxes |-> {}]
  /\ posts = [m \in Mailboxes |-> [u \in Uids |-> 0]]
  /\ webhookUrl \in hooks
  /\ managed = [m \in Mailboxes |-> 0]
  /\ mgr = [k \in Mgrs |-> NoManager]
  /\ rec = RecIdle
  /\ started = FALSE
  /\ faults = nfaults
  /\ toggles = ntoggles
  /\ arrivals = narrivals
  /\ cyc = [k \in Mgrs |-> NoCycle]
  /\ hist = [m \in Mailboxes |-> NoHistory]
  /\ overlapped = {}
  /\ worker = NoWorker
  /\ sigint = NoSignal

\* One mailbox, whose active flag never changes.
Init == Start({1}, BOOLEAN, MaxFaults, 0, MaxUid) /\ clock = NoClock

\* One mailbox, a new one, whose active flag changes.
InitRoster ==
  /\ Start({1}, {TRUE}, MaxFleetFaults, MaxToggles, MaxArrivals)
  /\ uidNext = [m \in Mailboxes |-> 1]
  /\ clock = NoClock

\* All mailboxes, new ones, with changes of their active flags.
InitFleet ==
  /\ Start(Mailboxes, {TRUE}, MaxFleetFaults, MaxFleetToggles,
           MaxFleetArrivals)
  /\ uidNext = [m \in Mailboxes |-> 1]
  /\ clock = NoClock

\* ----------------------------------------------- reconcileAndManageMailboxes
\* A removal loop that finds nothing to remove.
UnassignedNone(mg, roster) == {}

\* The keys of managedMailboxes that are not in dbMailboxIds.
Unassigned(mg, roster) == {m \in Mailboxes : mg[m] # 0 /\ m \notin roster}

\* The synchronous run of a reconcile pass from one await to the next: the
\* add loop up to the next mailbox without a manager (constructs it, enters it
\* in managedMailboxes and calls initialize()), then the removal loop up to
\* the next manager whose mailbox left the roster (calls disconnect()), then
\* the end of the pass.
RecAdvance(rc, mg, ms) ==
  LET cand == {m \in rc.todo : mg[m] = 0}
      rem == Unassigned(mg, rc.roster)
      free == {k \in Mgrs : ms[k].mb = 0}
      stale == {k \in Mgrs : ms[k].mb # 0 /\ mg[ms[k].mb] # k}
  IN
  IF cand # {}
  THEN LET m == Min(cand)
           nm == IF free # {} THEN Min(free) ELSE 0
       IN
       [ok |-> free # {} /\ Cardinality(stale) <= MaxStale,
        rec |-> [rc EXCEPT !.pc = "init", !.cur = m, !.k = nm,
                           !.todo = {x \in rc.todo : x > m}],
        managed |-> [mg EXCEPT ![m] = nm],
        mgr |-> IF free # {} THEN [ms EXCEPT ![nm] = NewManager(m)] ELSE ms]
  ELSE IF rem # {}
  THEN LET m == Min(rem) IN
       [ok |-> TRUE,
        rec |-> [rc EXCEPT !.pc = "remove", !.cur = m, !.k = mg[m], !.todo = {}],
        managed |-> mg,
        mgr |-> [ms EXCEPT ![mg[m]].client = Logout(@)]]
  ELSE [ok |-> TRUE,
        rec |-> [RecIdle EXCEPT !.authGone = rc.authGone,
                                !.missed = {m \in rc.roster : mg[m] = 0},
                                !.removed = rc.removed,
                                !.extra = {m \in Mailboxes :
                                             mg[m] # 0 /\ m \notin rc.roster}],
        managed |-> mg, mgr |-> ms]

\* The state after a step whose reconcile part is res (a RecAdvance result).
Apply(res) == res.ok /\ Commit(res.managed, res.mgr, res.rec, cyc)

\* manager k's connect() has returned, leaving the managers as ms: a reconcile
\* pass that awaits it goes on.
Resume(k, ms) ==
  IF rec.pc = "connect" /\ rec.k = k
  THEN RecAdvance(rec, managed, ms)
  ELSE [ok |-> TRUE, rec |-> rec, managed |-> managed, mgr |-> ms]

\* main() or the interval starts a pass, and the roster query answers with the
\* active mailboxes of this instance.  Nothing else reads the active flags, so
\* the control plane's changes since the last query (flip) are made here.
ReconcileRoster ==
  /\ rec.pc = "idle" /\ sigint.pc # "exited"
  /\ \E flip \in SUBSET known :
       /\ Cardinality(flip) <= toggles
       /\ toggles' = toggles - Cardinality(flip)
       /\ active' = [m \in Mailboxes |-> IF m \in flip THEN ~active[m]
                                         ELSE active[m]]
       /\ LET roster == {m \in Mailboxes : active'[m]} IN
          Apply(RecAdvance([RecIdle EXCEPT !.roster = roster, !.todo = roster],
                           managed, mgr))
  /\ UNCHANGED <<storeVars, remoteVars, known, webhookUrl, worker, sigint,
                 clock, posts, faults, hist>>

\* The roster query fails: the pass returns.
ReconcileRosterError ==
  /\ rec.pc = "idle" /\ sigint.pc # "exited"
  /\ Fault
  /\ Commit(managed, mgr, rec, cyc)
  /\ UNCHANGED <<storeVars, remoteVars, envVars, posts, hist>>

\* await manager.disconnect() has returned: managedMailboxes.delete(mailboxId),
\* and the removal loop goes on.
ReconcileRemove ==
  /\ rec.pc = "remove"
  /\ Apply(RecAdvance([rec EXCEPT !.removed = @ \cup {rec.cur}],
                      [managed EXCEPT ![rec.cur] = 0], mgr))
  /\ UNCHANGED <<storeVars, remoteVars, envVars, posts, faults, hist>>

\* ------------------------------------------------------------ initialize
\* initialize() finds the mailbox's row, or finds none (PGRST116) and inserts
\* one with last_processed_uid 0: syncStatus is that row, initialize returns
\* true and the pass calls connect().
Initialize ==
  LET m == rec.cur IN
  /\ rec.pc = "init"
  /\ rowExists' = [rowExists EXCEPT ![m] = TRUE]
  /\ dbCursor' = [dbCursor EXCEPT ![m] = IF rowExists[m] THEN @ ELSE 0]
  /\ dbInit' = [dbInit EXCEPT ![m] = IF rowExists[m] THEN @ ELSE FALSE]
  /\ Commit(managed,
            [mgr EXCEPT ![rec.k] =
               ConnectCall([@ EXCEPT !.loaded = TRUE,
                                     !.cursor = dbCursor'[m],
                                     !.init = dbInit'[m]])],
            [rec EXCEPT !.pc = "connect"], cyc)
  /\ UNCHANGED <<emails, remoteVars, envVars, posts, faults, hist>>

\* A failed initialize() that takes the manager out of managedMailboxes.
InitializeErrorDrops ==
  /\ rec.pc = "init"
  /\ Fault
  /\ Apply(RecAdvance(rec, [managed EXCEPT ![rec.cur] = 0], mgr))
  /\ UNCHANGED <<storeVars, remoteVars, envVars, posts, hist>>

\* A failed initialize() that ends the pass.
InitializeErrorStops ==
  /\ rec.pc = "init"
  /\ Fault
  /\ Commit(managed, mgr,
            [RecIdle EXCEPT !.authGone = rec.authGone,
                            !.missed = {m \in rec.roster : managed[m] = 0},
                            !.removed = rec.removed,
                            !.extra = Unassigned(managed, rec.roster)],
            cyc)
  /\ UNCHANGED <<storeVars, remoteVars, envVars, posts, hist>>

\* The select or the insert fails: initialize returns false, the manager stays
\* in managedMailboxes as constructed, and the add loop goes on.
InitializeError ==
  /\ rec.pc = "init"
  /\ Fault
  /\ Apply(RecAdvance(rec, managed, mgr))
  /\ UNCHANGED <<storeVars, remoteVars, envVars, posts, hist>>

\* --------------------------------------------------------------- connect
\* No manager of managedMailboxes holds an open session on mailbox m.
Offline(m) == managed[m] = 0 \/ mgr[managed[m]].client # "open"

\* client.connect() and mailboxOpen('INBOX') succeed.  With the baseline
\* already set connect() returns; else it computes latestUID and awaits
\* updateSyncStatus.
ConnectOpened(k) ==
  LET m == mgr[k].mb
      r == [mgr[k] EXCEPT !.isConnecting = FALSE, !.client = "open",
                          !.delays = <<>>]
  IN
  /\ mgr[k].cpc = "open" /\ mgr[k].client = "new"
  /\ \E n \in 0..MaxUid : Arrive(m, n)
  /\ hist' = [hist EXCEPT
                ![m].opened = TRUE,
                ![m].pre = IF hist[m].opened THEN @ ELSE remote'[m],
                ![m].offline = IF Offline(m) /\ dbInit[m]
                               THEN @ \cup (remote'[m] \ remote[m])
                               ELSE @]
  /\ IF r.init
     THEN Apply(Resume(k, [mgr EXCEPT ![k] = [r EXCEPT !.cpc = "idle"]]))
     ELSE Commit(managed,
                 [mgr EXCEPT ![k] = [r EXCEPT !.cpc = "baseline",
                                              !.uidNext = uidNext'[m],
                                              !.exists = (remote'[m] # {}),
                                              !.latestUID =
                                                LatestUID(remote'[m], uidNext'[m])]],
                 rec, cyc)
  /\ UNCHANGED <<storeVars, envVars, posts, faults>>

\* client.connect() or mailboxOpen() throws, with or without the code
\* AUTHENTICATIONFAILED (or the client was logged out while connecting): the
\* catch block does not look at the code; logout, setTimeout(() =>
\* this.connect(), RECONNECT_DELAY_MS).
ConnectFailed(k, auth) ==
  /\ mgr[k].cpc = "open"
  /\ mgr[k].timers < MaxTimers
  /\ IF mgr[k].client = "new" THEN Fault ELSE ~auth /\ faults' = faults
  /\ Apply(Resume(k, [mgr EXCEPT ![k].isConnecting = FALSE,
                                 ![k].client = "closed",
                                 ![k].timers = @ + 1,
                                 ![k].cpc = "idle",
                                 ![k].authFailed = @ \/ auth,
                                 ![k].delays =
                                    Scheduled(@, RECONNECT_DELAY_MS)]))
  /\ UNCHANGED <<storeVars, remoteVars, envVars, posts, hist>>

\* updateSyncStatus({initial_sync_completed_at, last_processed_uid: latestUID})
\* succeeds: the row and this.syncStatus take both fields; connect() returns.
BaselineWrite(k) ==
  LET m == mgr[k].mb IN
  /\ mgr[k].cpc = "baseline"
  /\ dbCursor' = [dbCursor EXCEPT ![m] = mgr[k].latestUID]
  /\ dbInit' = [dbInit EXCEPT ![m] = TRUE]
  /\ hist' = IF hist[m].baseVal = -1
             THEN [hist EXCEPT ![m].baseVal = mgr[k].latestUID,
                               ![m].baseN = mgr[k].uidNext,
                               ![m].baseEmpty = ~mgr[k].exists,
                               ![m].baseRows =
                                  Cardinality({e \in BagToSet(emails) : e[1] = m})]
             ELSE hist
  /\ Apply(Resume(k, [mgr EXCEPT ![k].cursor = mgr[k].latestUID,
                                 ![k].init = TRUE,
                                 ![k].uidNext = 0, ![k].exists = FALSE,
                                 ![k].latestUID = 0,
                                 ![k].cpc = "idle"]))
  /\ UNCHANGED <<rowExists, emails, remoteVars, envVars, posts, faults>>

\* The baseline's updateSyncStatus fails: logged, nothing changes.
BaselineWriteError(k) ==
  /\ mgr[k].cpc = "baseline"
  /\ Fault
  /\ Apply(Resume(k, [mgr EXCEPT ![k].uidNext = 0, ![k].exists = FALSE,
                                 ![k].latestUID = 0, ![k].cpc = "idle"]))
  /\ UNCHANGED <<storeVars, remoteVars, envVars, posts, hist>>

\* A reconnect timer fires: connect().  A timer that fires while a connect()
\* of the manager is in flight finds its guard closed; it is left pending
\* until that connect() has returned, where the guard decides the same.
ReconnectTimer(k) ==
  /\ mgr[k].timers > 0 /\ mgr[k].cpc = "idle"
  /\ Commit(managed, [mgr EXCEPT ![k] = ConnectCall([@ EXCEPT !.timers = @ - 1])],
            rec, cyc)
  /\ UNCHANGED <<storeVars, remoteVars, envVars, posts, faults, hist>>

\* ------------------------------------------------------ pollForNewEmails
\* A guard that does not look at isPolling.
PollGuardNoFlag(r) ==
  ~(r.client = "null" \/ r.client = "closed" \/ ~r.init)

\* The guard of pollForNewEmails().
PollGuard(r) ==
  ~(r.isPolling \/ r.client = "null" \/ r.client = "closed" \/ ~r.init)

\* finally: isPolling = false; the locals of the poll are gone.
EndPoll(r) ==
  [r EXCEPT !.isPolling = FALSE, !.ppc = "idle", !.lastUID = 0,
            !.queue = <<>>, !.cur = 0]

EndCycle(c) == [NoCycle EXCEPT !.inflight = c.inflight - 1,
                               !.failedAt = c.failedAt]

\* this.isPolling = true, and after the await of updateSyncStatus the read of
\* lastUID and the call of getMailboxLock.
Polling(r) ==
  [r EXCEPT !.isPolling = TRUE, !.ppc = "fetch", !.lastUID = LastUID(r)]

\* The cycle that starts (ok: its write of last_synced_at succeeded).
NewCycle(c, ok) ==
  [NoCycle EXCEPT !.inflight = c.inflight + 1, !.failedAt = c.failedAt,
                  !.clean = ok]

\* pollManagedMailboxes finds the manager of m due; pollForNewEmails() passes
\* its guard and sets isPolling; updateSyncStatus({last_synced_at}) returns
\* (a failure of it is logged); lastUID = this.syncStatus.last_processed_uid;
\* getMailboxLock is awaited.
PollStart(m) ==
  LET k == managed[m] IN
  /\ started /\ k # 0
  /\ PollGuard(mgr[k])
  /\ \E ok \in BOOLEAN :
       /\ IF ok THEN faults' = faults ELSE Fault
       /\ Commit(managed, [mgr EXCEPT ![k] = Polling(@)], rec,
                 [cyc EXCEPT ![k] = NewCycle(@, ok)])
  /\ UNCHANGED <<storeVars, remoteVars, envVars, posts, hist>>

\* A tick of setInterval(pollManagedMailboxes, 5000), at or a little after
\* its time: for every manager of managedMailboxes that is due,
\* pollForNewEmails(), which for those that pass the guard sets isPolling and
\* lastChecked = Date.now() and goes on as in PollStart.
Tick ==
  \E lag \in 0..MaxTimerLag :
    LET t == clock.now + DISPATCH_INTERVAL_MS + lag
        go == {k \in Mgrs :
                 /\ \E m \in Mailboxes : managed[m] = k
                 /\ Due(t, clock.lastChecked[k], clock.pollingInterval[k])
                 /\ PollGuard(mgr[k])}
    IN
    /\ started /\ t <= Epoch + MaxElapsed
    /\ clock' = [clock EXCEPT
                   !.now = t,
                   !.lastChecked = [k \in Mgrs |-> IF k \in go THEN t ELSE @[k]],
                   !.prevStart = [k \in Mgrs |-> IF k \in go
                                                 THEN clock.lastStart[k]
                                                 ELSE @[k]],
                   !.lastStart = [k \in Mgrs |-> IF k \in go THEN t ELSE @[k]]]
    /\ Commit(managed,
              [k \in Mgrs |-> IF k \in go THEN Polling(mgr[k]) ELSE mgr[k]],
              rec,
              [k \in Mgrs |-> IF k \in go THEN NewCycle(cyc[k], TRUE)
                              ELSE cyc[k]])
    /\ UNCHANGED <<storeVars, remoteVars, known, active, webhookUrl, toggles,
                   worker, sigint, posts, faults, hist>>

\* The lock is taken and FETCH nextUID:* is answered: the messages of the
\* range, streamed in ascending order.
PollFetch(k) ==
  LET m == mgr[k].mb IN
  /\ mgr[k].ppc = "fetch" /\ mgr[k].client = "open"
  /\ \E n \in 0..MaxUid : Arrive(m, n)
  /\ LET got == FetchRange(remote'[m], mgr[k].lastUID + 1) IN
     Commit(managed,
            [mgr EXCEPT ![k].queue = Ascending(got), ![k].ppc = "next"],
            rec,
            [cyc EXCEPT ![k].seen = remote'[m],
                        ![k].c0 = dbCursor[m],
                        ![k].failedAt = -1,
                        ![k].replay = (got # {} /\
                                       \A u \in got : Stored(m, u))])
     /\ hist' = [hist EXCEPT ![m].offline = @ \ got]
  /\ UNCHANGED <<storeVars, envVars, posts, faults>>

\* A catch block that empties managedMailboxes on AUTHENTICATIONFAILED.
CatchClears(k, auth, cy) ==
  /\ mgr[k].timers < MaxTimers
  /\ Commit(IF auth THEN [m \in Mailboxes |-> 0] ELSE managed,
            [mgr EXCEPT ![k] = EndPoll([@ EXCEPT !.client = Logout(@),
                                                 !.timers = @ + 1,
                                                 !.authFailed = @ \/ auth])],
            rec,
            [cy EXCEPT ![k] = EndCycle(@)])

\* A catch block that forgets the manager's last_processed_uid.
CatchRewinds(k, auth, cy) ==
  LET m == mgr[k].mb IN
  /\ mgr[k].timers < MaxTimers
  /\ Commit(IF auth THEN [managed EXCEPT ![m] = 0] ELSE managed,
            [mgr EXCEPT ![k] = EndPoll([@ EXCEPT !.client = Logout(@),
                                                 !.timers = @ + 1,
                                                 !.cursor = 0,
                                                 !.authFailed = @ \/ auth])],
            IF auth /\ managed[m] # 0 /\ m \in rec.roster
            THEN [rec EXCEPT !.authGone = @ \cup {m}]
            ELSE rec,
            [cy EXCEPT ![k] = EndCycle(@)])

\* The catch block of pollForNewEmails: an AUTHENTICATIONFAILED error deletes
\* the mailbox's entry of managedMailboxes; disconnect(); setTimeout(() =>
\* this.connect(), RECONNECT_DELAY_MS); finally isPolling = false.
Catch(k, auth, cy) ==
  LET m == mgr[k].mb IN
  /\ mgr[k].timers < MaxTimers
  /\ Commit(IF auth THEN [managed EXCEPT ![m] = 0] ELSE managed,
            [mgr EXCEPT ![k] = EndPoll([@ EXCEPT !.client = Logout(@),
                                                 !.timers = @ + 1,
                                                 !.authFailed = @ \/ auth])],
            IF auth /\ managed[m] # 0 /\ m \in rec.roster
            THEN [rec EXCEPT !.authGone = @ \cup {m}]
            ELSE rec,
            [cy EXCEPT ![k] = EndCycle(@)])

\* getMailboxLock or the FETCH stream throws (it must when the session is not
\* open), with or without the code AUTHENTICATIONFAILED.
PollFetchError(k, auth) ==
  /\ mgr[k].ppc \in {"fetch", "next"}
  /\ IF mgr[k].client = "open" THEN Fault ELSE ~auth /\ faults' = faults
  /\ Catch(k, auth, [cyc EXCEPT ![k].failedAt = mgr[k].cursor])
  /\ hist' = IF auth
             THEN [hist EXCEPT
                     ![mgr[k].mb].auth = TRUE,
                     ![mgr[k].mb].authRows =
                        Cardinality({e \in BagToSet(emails) : e[1] # mgr[k].mb})]
             ELSE hist
  /\ UNCHANGED <<storeVars, remoteVars, envVars, posts>>

\* The stream yields a message with msg.uid <= lastUID: continue.
PollSkip(k) ==
  /\ mgr[k].ppc = "next" /\ mgr[k].client = "open"
  /\ mgr[k].queue # <<>> /\ Skips(Head(mgr[k].queue), mgr[k].lastUID)
  /\ Commit(managed, [mgr EXCEPT ![k].queue = Tail(@)], rec, cyc)
  /\ UNCHANGED <<storeVars, remoteVars, envVars, posts, faults, hist>>

\* simpleParser(msg.source) is a function of the message's source: it can
\* return for a message unless it has thrown on it, and throw on one unless
\* it has parsed it.
Parses(m, u) == u \notin hist[m].unparsed
Throws(m, u) == u \notin hist[m].parsed

\* The stream yields a message above lastUID and simpleParser parses it:
\* saveEmailToDb awaits the insert.
PollParsed(k) ==
  /\ mgr[k].ppc = "next" /\ mgr[k].client = "open"
  /\ mgr[k].queue # <<>> /\ ~Skips(Head(mgr[k].queue), mgr[k].lastUID)
  /\ Parses(mgr[k].mb, Head(mgr[k].queue))
  /\ Commit(managed,
            [mgr EXCEPT ![k].cur = Head(mgr[k].queue), ![k].queue = Tail(@),
                        ![k].ppc = "insert"],
            rec, cyc)
  /\ hist' = [hist EXCEPT ![mgr[k].mb].parsed = @ \cup {Head(mgr[k].queue)}]
  /\ UNCHANGED <<storeVars, remoteVars, envVars, posts, faults>>

\* A loop that logs the message simpleParser throws on and goes on to the
\* next one.
PollParseErrorSkips(k) ==
  /\ mgr[k].ppc = "next" /\ mgr[k].client = "open"
  /\ mgr[k].queue # <<>> /\ ~Skips(Head(mgr[k].queue), mgr[k].lastUID)
  /\ Throws(mgr[k].mb, Head(mgr[k].queue))
  /\ IF Parses(mgr[k].mb, Head(mgr[k].queue)) THEN Fault
     ELSE faults' = faults
  /\ Commit(managed, [mgr EXCEPT ![k].queue = Tail(@)], rec, cyc)
  /\ hist' = [hist EXCEPT ![mgr[k].mb].unparsed = @ \cup {Head(mgr[k].queue)}]
  /\ UNCHANGED <<storeVars, remoteVars, envVars, posts>>

\* simpleParser throws on the message (for the first time, or again): the
\* catch block.
PollParseError(k) ==
  /\ mgr[k].ppc = "next" /\ mgr[k].client = "open"
  /\ mgr[k].queue # <<>> /\ ~Skips(Head(mgr[k].queue), mgr[k].lastUID)
  /\ Throws(mgr[k].mb, Head(mgr[k].queue))
  /\ IF Parses(mgr[k].mb, Head(mgr[k].queue)) THEN Fault
     ELSE faults' = faults
  /\ Catch(k, FALSE, cyc)
  /\ hist' = [hist EXCEPT ![mgr[k].mb].unparsed = @ \cup {Head(mgr[k].queue)}]
  /\ UNCHANGED <<storeVars, remoteVars, envVars, posts>>

\* The stream ends: lock.release(), isPolling = false.
PollEnd(k) ==
  /\ mgr[k].ppc = "next" /\ mgr[k].queue = <<>>
  /\ Commit(managed, [mgr EXCEPT ![k] = EndPoll(@)], rec,
            [cyc EXCEPT ![k] = EndCycle(@)])
  /\ UNCHANGED <<storeVars, remoteVars, envVars, posts, faults, hist>>

\* The insert succeeds (no row of the mailbox has the uid): saveEmailToDb
\* returns emailData and updateSyncStatus({last_processed_uid}) is awaited.
PollInsert(k) ==
  LET m == mgr[k].mb
      u == mgr[k].cur
  IN
  /\ mgr[k].ppc = "insert" /\ ~UniqueViolation(emails, <<m, u>>)
  /\ emails' = emails (+) SetToBag({<<m, u>>})
  /\ hist' = [hist EXCEPT ![m].retry = @ \ {u}]
  /\ Commit(managed, [mgr EXCEPT ![k] = AfterSave(@, TRUE)], rec,
            [cyc EXCEPT ![k].ins = @ \cup {u}])
  /\ UNCHANGED <<rowExists, dbCursor, dbInit, remoteVars, envVars, posts,
                 faults>>

\* The insert violates UNIQUE (mailbox_id, uid), code 23505: saveEmailToDb
\* returns null and the loop goes to the next message.
PollInsertConflict(k) ==
  LET m == mgr[k].mb
      u == mgr[k].cur
  IN
  /\ mgr[k].ppc = "insert" /\ UniqueViolation(emails, <<m, u>>)
  /\ Commit(managed, [mgr EXCEPT ![k] = AfterSave(@, FALSE)], rec,
            [cyc EXCEPT ![k].conflicts = @ \cup {u}, ![k].clean = FALSE])
  /\ UNCHANGED <<storeVars, remoteVars, envVars, posts, faults, hist>>

\* An insert error that is swallowed as a conflict is: the loop goes on.
PollInsertErrorSwallowed(k) ==
  LET m == mgr[k].mb
      u == mgr[k].cur
  IN
  /\ mgr[k].ppc = "insert"
  /\ Fault
  /\ Commit(managed, [mgr EXCEPT ![k] = AfterSave(@, FALSE)], rec,
            [cyc EXCEPT ![k].clean = FALSE])
  /\ hist' = IF Stored(m, u) THEN hist
             ELSE [hist EXCEPT ![m].retry = @ \cup {u}]
  /\ UNCHANGED <<storeVars, remoteVars, envVars, posts>>

\* The insert fails with another error: saveEmailToDb throws, the catch block.
PollInsertError(k) ==
  LET m == mgr[k].mb
      u == mgr[k].cur
  IN
  /\ mgr[k].ppc = "insert"
  /\ Fault
  /\ Catch(k, FALSE, cyc)
  /\ hist' = IF Stored(m, u) THEN hist
             ELSE [hist EXCEPT ![m].retry = @ \cup {u}]
  /\ UNCHANGED <<storeVars, remoteVars, envVars, posts>>

\* A pipeline that never calls the webhook.
AfterCursorSilent(r) == [r EXCEPT !.ppc = "next", !.cur = 0]

\* sendToWebhook: without WEBHOOK_URL it returns at once.
AfterCursor(r) ==
  IF webhookUrl THEN [r EXCEPT !.ppc = "webhook"]
  ELSE [r EXCEPT !.ppc = "next", !.cur = 0]

\* updateSyncStatus({last_processed_uid: msg.uid}) succeeds: the row and
\* this.syncStatus take the uid; sendToWebhook is called.
PollCursorWrite(k) ==
  LET m == mgr[k].mb
      u == mgr[k].cur
  IN
  /\ mgr[k].ppc = "cursor"
  /\ dbCursor' = [dbCursor EXCEPT ![m] = u]
  /\ Commit(managed, [mgr EXCEPT ![k] = AfterCursor([@ EXCEPT !.cursor = u])],
            rec, cyc)
  /\ UNCHANGED <<rowExists, dbInit, emails, remoteVars, envVars, posts,
                 faults, hist>>

\* An updateSyncStatus that merges the fields into this.syncStatus before
\* it looks at the store's answer.
PollCursorWriteErrorMerges(k) ==
  /\ mgr[k].ppc = "cursor"
  /\ Fault
  /\ Commit(managed,
            [mgr EXCEPT ![k] = AfterCursor([@ EXCEPT !.cursor = mgr[k].cur])],
            rec, [cyc EXCEPT ![k].clean = FALSE])
  /\ UNCHANGED <<storeVars, remoteVars, envVars, posts, hist>>

\* The cursor's updateSyncStatus fails: logged; sendToWebhook is called.
PollCursorWriteError(k) ==
  /\ mgr[k].ppc = "cursor"
  /\ Fault
  /\ Commit(managed, [mgr EXCEPT ![k] = AfterCursor(@)], rec,
            [cyc EXCEPT ![k].clean = FALSE])
  /\ UNCHANGED <<storeVars, remoteVars, envVars, posts, hist>>

\* A sendToWebhook whose failed axios.post reaches the catch block of the
\* poll.
PollWebhookThrows(k) ==
  LET m == mgr[k].mb
      u == mgr[k].cur
  IN
  /\ mgr[k].ppc = "webhook"
  /\ posts' = [posts EXCEPT ![m][u] = @ + 1]
  /\ \E ok \in BOOLEAN :
       IF ok
       THEN /\ faults' = faults
            /\ Commit(managed, [mgr EXCEPT ![k].ppc = "next", ![k].cur = 0],
                      rec, [cyc EXCEPT ![k].nposts = @ + 1])
       ELSE Fault /\ Catch(k, FALSE, cyc)
  /\ UNCHANGED <<storeVars, remoteVars, envVars, hist>>

\* A sendToWebhook that issues a failed axios.post a second time.
PollWebhookRetries(k) ==
  LET m == mgr[k].mb
      u == mgr[k].cur
  IN
  /\ mgr[k].ppc = "webhook"
  /\ \E ok \in BOOLEAN :
       /\ IF ok THEN faults' = faults ELSE Fault
       /\ posts' = [posts EXCEPT ![m][u] = @ + (IF ok THEN 1 ELSE 2)]
       /\ Commit(managed, [mgr EXCEPT ![k].ppc = "next", ![k].cur = 0], rec,
                 [cyc EXCEPT ![k].nposts = @ + 1, ![k].clean = @ /\ ok,
                             ![k].hookFailed =
                                IF ok THEN @ ELSE @ \cup {u}])
  /\ UNCHANGED <<storeVars, remoteVars, envVars, hist>>

\* axios.post returns, or throws and is logged: the loop goes to the next
\* message.
PollWebhook(k) ==
  LET m == mgr[k].mb
      u == mgr[k].cur
  IN
  /\ mgr[k].ppc = "webhook"
  /\ posts' = [posts EXCEPT ![m][u] = @ + 1]
  /\ \E ok \in BOOLEAN :
       /\ IF ok THEN faults' = faults ELSE Fault
       /\ Commit(managed, [mgr EXCEPT ![k].ppc = "next", ![k].cur = 0], rec,
                 [cyc EXCEPT ![k].nposts = @ + 1, ![k].clean = @ /\ ok,
                             ![k].hookFailed =
                                IF ok THEN @ ELSE @ \cup {u}])
  /\ UNCHANGED <<storeVars, remoteVars, envVars, hist>>

\* ----------------------------------------------------------- environment
\* The server or the network closes an open session.
ConnectionLost(k) ==
  /\ mgr[k].client = "open"
  /\ Fault
  /\ Commit(managed, [mgr EXCEPT ![k].client = "closed"], rec, cyc)
  /\ UNCHANGED <<storeVars, remoteVars, envVars, posts, hist>>

\* The process dies and the process manager starts it again (autorestart):
\* main() runs from a new process; the stores are as they were.
Restart ==
  /\ started \/ rec.pc # "idle"
  /\ sigint.pc = "none"
  /\ Fault
  /\ managed' = [m \in Mailboxes |-> 0]
  /\ mgr' = [k \in Mgrs |-> NoManager]
  /\ rec' = RecIdle
  /\ started' = FALSE
  /\ cyc' = [k \in Mgrs |-> NoCycle]
  /\ hist' = [m \in Mailboxes |-> [hist[m] EXCEPT !.auth = FALSE]]
  /\ UNCHANGED <<storeVars, remoteVars, envVars, posts, overlapped>>

Next ==
  \/ ReconcileRoster
  \/ ReconcileRosterError
  \/ Initialize
  \/ InitializeError
  \/ \E k \in Mgrs : ConnectOpened(k)
  \/ \E k \in Mgrs, auth \in BOOLEAN : ConnectFailed(k, auth)
  \/ \E k \in Mgrs : BaselineWrite(k)
  \/ \E k \in Mgrs : BaselineWriteError(k)
  \/ \E k \in Mgrs : ReconnectTimer(k)
  \/ \E m \in Mailboxes : PollStart(m)
  \/ \E k \in Mgrs : PollFetch(k)
  \/ \E k \in Mgrs, auth \in BOOLEAN : PollFetchError(k, auth)
  \/ \E k \in Mgrs : PollSkip(k)
  \/ \E k \in Mgrs : PollParsed(k)
  \/ \E k \in Mgrs : PollParseError(k)
  \/ \E k \in Mgrs : PollEnd(k)
  \/ \E k \in Mgrs : PollInsert(k)
  \/ \E k \in Mgrs : PollInsertConflict(k)
  \/ \E k \in Mgrs : PollInsertError(k)
  \/ \E k \in Mgrs : PollCursorWrite(k)
  \/ \E k \in Mgrs : PollCursorWriteError(k)
  \/ \E k \in Mgrs : PollWebhook(k)
  \/ \E k \in Mgrs : ConnectionLost(k)
  \/ Restart

\* One mailbox's pipeline under a roster that does not change.
Spec == Init /\ [][Next]_vars

NextRoster == Next \/ ReconcileRemove

\* One mailbox whose active flag changes.
SpecRoster == InitRoster /\ [][NextRoster]_vars

\* The fleet: all mailboxes, the roster changing.
SpecFleet == InitFleet /\ [][NextRoster]_vars

\* ------------------------------------------------------------ SIGINT
\* The handler's loop from one await to the next: disconnect() of the next
\* manager of managedMailboxes, or after the last one setTimeout(() =>
\* process.exit(0), 2000).
SigAdvance(sg) ==
  LET cand == {m \in sg.todo : managed[m] # 0} IN
  IF cand # {}
  THEN LET m == Min(cand) IN
       /\ sigint' = [pc |-> "closing", cur |-> m,
                     todo |-> {x \in sg.todo : x > m}]
       /\ Commit(managed, [mgr EXCEPT ![managed[m]].client = Logout(@)],
                 rec, cyc)
  ELSE /\ sigint' = [pc |-> "grace", cur |-> 0, todo |-> {}]
       /\ Commit(managed, mgr, rec, cyc)

\* SIGINT arrives (the handler is registered once main() has set up its
\* intervals): the loop over managedMailboxes.values() starts.
Sigint ==
  /\ started /\ sigint.pc = "none"
  /\ SigAdvance([NoSignal EXCEPT !.todo = Mailboxes])
  /\ UNCHANGED <<storeVars, remoteVars, known, active, webhookUrl, toggles,
                 worker, clock, posts, faults, hist>>

\* await manager.disconnect() has returned: the loop goes on.
SigintDisconnected ==
  /\ sigint.pc = "closing"
  /\ SigAdvance(sigint)
  /\ UNCHANGED <<storeVars, remoteVars, known, active, webhookUrl, toggles,
                 worker, clock, posts, faults, hist>>

\* The 2000 ms timeout fires: process.exit(0).  The stores are as they were.
SigintExit ==
  /\ sigint.pc = "grace"
  /\ sigint' = [pc |-> "exited", cur |-> 0, todo |-> {}]
  /\ managed' = [m \in Mailboxes |-> 0]
  /\ mgr' = [k \in Mgrs |-> NoManager]
  /\ rec' = RecIdle
  /\ started' = FALSE
  /\ cyc' = [k \in Mgrs |-> NoCycle]
  /\ UNCHANGED <<storeVars, remoteVars, known, active, webhookUrl, toggles,
                 worker, clock, posts, faults, hist, overlapped>>

\* All mailboxes with nothing arriving, and a SIGINT.
InitShutdown ==
  /\ Start(Mailboxes, {TRUE}, MaxShutdownFaults, 0, 0)
  /\ clock = NoClock

NextShutdown ==
  \/ ReconcileRoster
  \/ Initialize
  \/ \E k \in Mgrs : ConnectOpened(k)
  \/ \E k \in Mgrs, auth \in BOOLEAN : ConnectFailed(k, auth)
  \/ \E k \in Mgrs : BaselineWrite(k)
  \/ \E k \in Mgrs : ReconnectTimer(k)
  \/ \E m \in Mailboxes : PollStart(m)
  \/ \E k \in Mgrs : PollFetch(k)
  \/ \E k \in Mgrs, auth \in BOOLEAN : PollFetchError(k, auth)
  \/ \E k \in Mgrs : PollEnd(k)
  \/ \E k \in Mgrs : ConnectionLost(k)
  \/ Sigint
  \/ SigintDisconnected
  \/ SigintExit

SpecShutdown == InitShutdown /\ [][NextShutdown]_vars

\* -------------------------------------------------------- the dispatcher
\* One mailbox, nothing arriving and nothing failing, with the clock: every
\* manager the process constructs draws the same value of Math.random().
InitDispatch ==
  /\ Start({1}, {TRUE}, 0, 0, 0)
  /\ \E x \in Randoms :
       clock = [NoClock EXCEPT
                  !.pollingInterval = [k \in Mgrs |-> PollingIntervalOf(x)]]

NextDispatch ==
  \/ ReconcileRoster
  \/ Initialize
  \/ \E k \in Mgrs : ConnectOpened(k)
  \/ \E k \in Mgrs : BaselineWrite(k)
  \/ Tick
  \/ \E k \in Mgrs : PollFetch(k)
  \/ \E k \in Mgrs : PollEnd(k)

SpecDispatch == InitDispatch /\ [][NextDispatch]_vars

\* ------------------------------------------- the single-mailbox worker
multiVars == <<known, active, webhookUrl, toggles, remoteVars, posts,
               managed, mgr, rec, started, cyc, hist, overlapped, sigint,
               clock>>

\* A reconnect timer that leaves currentReconnectDelay as it is.
BackoffFixed(d) == d

\* currentReconnectDelay = Math.min(currentReconnectDelay * 2,
\*                                  RECONNECT_DELAY_MAX_MS)
Backoff(d) == IF d * 2 < RECONNECT_DELAY_MAX_MS THEN d * 2
              ELSE RECONNECT_DELAY_MAX_MS

\* connect(): returns if a connection exists that is not 'disconnected'; else
\* makes a new Imap, registers the three handlers and connects.
WConnect(w) ==
  IF w.state \notin {"none", "disconnected"} THEN w
  ELSE [w EXCEPT !.state = "connecting"]

\* reconnect(): returns if a reconnect is scheduled already; else schedules
\* one after currentReconnectDelay.
WReconnect(w) ==
  IF w.isReconnecting THEN w
  ELSE [w EXCEPT !.isReconnecting = TRUE,
                 !.timer = w.currentReconnectDelay,
                 !.losses = @ + 1,
                 !.peak = Max({@, w.currentReconnectDelay})]

\* main(): initializeState() loads the credentials and the sync row (inserted
\* with last_processed_uid 0 when missing) and returns true: connect().
WInitializeState ==
  LET m == WorkerMailbox IN
  /\ worker.pc = "main"
  /\ rowExists' = [rowExists EXCEPT ![m] = TRUE]
  /\ worker' = WConnect([worker EXCEPT !.pc = "run", !.init = dbInit[m],
                                       !.cursor = dbCursor[m]])
  /\ UNCHANGED <<multiVars, dbCursor, dbInit, emails, faults>>

\* initializeState() returns false: setTimeout(main, 60000).
WInitializeStateError ==
  /\ worker.pc = "main"
  /\ Fault
  /\ UNCHANGED <<multiVars, storeVars, worker>>

\* 'ready': handleReady resets isReconnecting and currentReconnectDelay and
\* calls openBox.
WReady ==
  /\ worker.pc = "run" /\ worker.state = "connecting"
  /\ worker' = [worker EXCEPT !.state = "ready", !.isReconnecting = FALSE,
                              !.currentReconnectDelay = RECONNECT_DELAY_BASE_MS,
                              !.box = "opening", !.losses = 0]
  /\ UNCHANGED <<multiVars, storeVars, faults>>

\* The openBox callback without an error: with the baseline not set it
\* awaits the update of the sync row, else it starts the polling interval.
WOpenBox ==
  /\ worker.pc = "run" /\ worker.box = "opening" /\ worker.state = "ready"
  /\ worker' = IF worker.init
               THEN [worker EXCEPT !.box = "idle", !.polling = TRUE]
               ELSE [worker EXCEPT !.box = "baseline"]
  /\ UNCHANGED <<multiVars, storeVars, faults>>

\* The openBox callback with an error (it must have one when the connection
\* has ended): return.
WOpenBoxError ==
  /\ worker.pc = "run" /\ worker.box = "opening"
  /\ IF worker.state = "ready" THEN Fault ELSE faults' = faults
  /\ worker' = [worker EXCEPT !.box = "idle"]
  /\ UNCHANGED <<multiVars, storeVars>>

\* The update of the sync row succeeds: initial_sync_completed_at and
\* last_processed_uid = box.uidnext - 1, in the row and in syncStatus; the
\* polling interval starts.
WBaseline ==
  LET m == WorkerMailbox IN
  /\ worker.pc = "run" /\ worker.box = "baseline"
  /\ dbInit' = [dbInit EXCEPT ![m] = TRUE]
  /\ dbCursor' = [dbCursor EXCEPT ![m] = uidNext[m] - 1]
  /\ worker' = [worker EXCEPT !.box = "idle", !.polling = TRUE,
                              !.init = TRUE, !.cursor = uidNext[m] - 1]
  /\ UNCHANGED <<multiVars, rowExists, emails, faults>>

\* The update of the sync row fails: return.
WBaselineError ==
  /\ worker.pc = "run" /\ worker.box = "baseline"
  /\ Fault
  /\ worker' = [worker EXCEPT !.box = "idle"]
  /\ UNCHANGED <<multiVars, storeVars>>

\* 'end' on the connection, established or not: handleEnd clears the polling
\* interval and calls reconnect().
WEnd ==
  /\ worker.pc = "run" /\ worker.state \in {"connecting", "ready"}
  /\ worker.losses < MaxLosses
  /\ worker' = WReconnect([worker EXCEPT !.state = "disconnected",
                                         !.polling = FALSE])
  /\ UNCHANGED <<multiVars, storeVars, faults>>

\* 'error' on a connection that emits no 'end': handleError exits the process
\* on AUTHENTICATIONFAILED and logs any other error.
WError(auth) ==
  /\ worker.pc = "run" /\ worker.state = "connecting"
  /\ Fault
  /\ worker' = [worker EXCEPT !.state = "disconnected",
                              !.pc = IF auth THEN "exited" ELSE @]
  /\ UNCHANGED <<multiVars, storeVars>>

\* The reconnect timeout fires: isReconnecting = false, connect(), and then
\* currentReconnectDelay doubles up to RECONNECT_DELAY_MAX_MS.
WReconnectTimer ==
  /\ worker.pc = "run" /\ worker.timer > 0
  /\ worker' = [WConnect([worker EXCEPT !.isReconnecting = FALSE])
                 EXCEPT !.timer = 0,
                        !.currentReconnectDelay = Backoff(@)]
  /\ UNCHANGED <<multiVars, storeVars, faults>>

InitWorker ==
  /\ Start({WorkerMailbox}, {TRUE}, MaxWorkerFaults, 0, 0)
  /\ clock = NoClock

NextWorker ==
  \/ WInitializeState
  \/ WInitializeStateError
  \/ WReady
  \/ WOpenBox
  \/ WOpenBoxError
  \/ WBaseline
  \/ WBaselineError
  \/ WEnd
  \/ \E auth \in BOOLEAN : WError(auth)
  \/ WReconnectTimer

SpecWorker == InitWorker /\ [][NextWorker]_vars

\* ------------------------------- the single-mailbox worker's polls
workerRest == <<known, active, webhookUrl, toggles, managed, mgr, rec,
                started, cyc, overlapped, sigint, clock>>

\* The message callbacks there can be.
Jobs == [gen : 1..MaxWorkerPolls, uid : Uids,
         pc : {"parse", "insert", "cursor", "webhook"}, saved : BOOLEAN]

\* A callback of the batch in its next place.
Moved(j, pc, saved) == [j EXCEPT !.pc = pc, !.saved = saved]

\* The polling interval fires: syncMissingEmails() reads lastUID, awaits
\* updateLastSyncedAt, and the search for UID lastUID+1:* answers; fetch
\* emits every message found, and each body goes to simpleParser with its
\* own callback.
WSync ==
  LET m == WorkerMailbox IN
  /\ worker.pc = "run" /\ worker.polling /\ worker.init
  /\ worker.state = "ready"
  /\ \E n \in 0..MaxUid : Arrive(m, n)
  /\ \E g \in 1..MaxWorkerPolls :
       /\ \A j \in worker.jobs : j.gen # g
       /\ worker' = [worker EXCEPT !.jobs = @ \cup
            {[gen |-> g, uid |-> u, pc |-> "parse", saved |-> FALSE] :
               u \in FetchRange(remote'[m], worker.cursor + 1)}]
  /\ UNCHANGED <<workerRest, storeVars, posts, faults, hist>>

\* simpleParser calls back with the parsed message: saveEmailToDb awaits its
\* select and its insert.
WParsed(j) ==
  LET m == WorkerMailbox IN
  /\ j \in worker.jobs /\ j.pc = "parse" /\ Parses(m, j.uid)
  /\ worker' = [worker EXCEPT !.jobs = (@ \ {j}) \cup {Moved(j, "insert", FALSE)}]
  /\ hist' = [hist EXCEPT ![m].parsed = @ \cup {j.uid}]
  /\ UNCHANGED <<workerRest, storeVars, remoteVars, posts, faults>>

\* simpleParser calls back with an error: logged, return.
WParseError(j) ==
  LET m == WorkerMailbox IN
  /\ j \in worker.jobs /\ j.pc = "parse" /\ Throws(m, j.uid)
  /\ IF Parses(m, j.uid) THEN Fault ELSE faults' = faults
  /\ worker' = [worker EXCEPT !.jobs = @ \ {j}]
  /\ hist' = [hist EXCEPT ![m].unparsed = @ \cup {j.uid}]
  /\ UNCHANGED <<workerRest, storeVars, remoteVars, posts>>

\* The insert succeeds: saveEmailToDb returns the row, and
\* updateLastProcessedUID(uid) sets syncStatus.last_processed_uid and awaits
\* the update of the sync row.
WInsert(j) ==
  LET m == WorkerMailbox IN
  /\ j \in worker.jobs /\ j.pc = "insert"
  /\ ~UniqueViolation(emails, <<m, j.uid>>)
  /\ emails' = emails (+) SetToBag({<<m, j.uid>>})
  /\ worker' = [worker EXCEPT
                  !.jobs = (@ \ {j}) \cup {Moved(j, "cursor", TRUE)},
                  !.cursor = j.uid,
                  !.failed = @ \ {j.uid}]
  /\ UNCHANGED <<workerRest, rowExists, dbCursor, dbInit, remoteVars, posts,
                 faults, hist>>

\* The insert hits 23505: saveEmailToDb returns undefined, and
\* updateLastProcessedUID(uid) is called all the same.
WInsertConflict(j) ==
  LET m == WorkerMailbox IN
  /\ j \in worker.jobs /\ j.pc = "insert"
  /\ UniqueViolation(emails, <<m, j.uid>>)
  /\ worker' = [worker EXCEPT
                  !.jobs = (@ \ {j}) \cup {Moved(j, "cursor", FALSE)},
                  !.cursor = j.uid]
  /\ UNCHANGED <<workerRest, storeVars, remoteVars, posts, faults, hist>>

\* saveEmailToDb throws: the callback's catch logs it.
WInsertError(j) ==
  LET m == WorkerMailbox IN
  /\ j \in worker.jobs /\ j.pc = "insert"
  /\ Fault
  /\ worker' = [worker EXCEPT
                  !.jobs = @ \ {j},
                  !.failed = IF Stored(m, j.uid) THEN @ ELSE @ \cup {j.uid}]
  /\ UNCHANGED <<workerRest, storeVars, remoteVars, posts, hist>>

\* After the cursor's update: sendToWebhook for a saved row when WEBHOOK_URL
\* is set, else the callback is done.
WAfterCursor(w, j) ==
  IF j.saved /\ webhookUrl
  THEN [w EXCEPT !.jobs = (@ \ {j}) \cup {Moved(j, "webhook", TRUE)}]
  ELSE [w EXCEPT !.jobs = @ \ {j}]

\* The update of the sync row to last_processed_uid = uid succeeds.
WCursorWrite(j) ==
  LET m == WorkerMailbox IN
  /\ j \in worker.jobs /\ j.pc = "cursor"
  /\ dbCursor' = [dbCursor EXCEPT ![m] = j.uid]
  /\ worker' = WAfterCursor(worker, j)
  /\ UNCHANGED <<workerRest, rowExists, dbInit, emails, remoteVars, posts,
                 faults, hist>>

\* The update of the sync row fails: logged.
WCursorWriteError(j) ==
  /\ j \in worker.jobs /\ j.pc = "cursor"
  /\ Fault
  /\ worker' = WAfterCursor(worker, j)
  /\ UNCHANGED <<workerRest, storeVars, remoteVars, posts, hist>>

\* axios.post returns or throws (logged).
WWebhook(j) ==
  LET m == WorkerMailbox IN
  /\ j \in worker.jobs /\ j.pc = "webhook"
  /\ posts' = [posts EXCEPT ![m][j.uid] = @ + 1]
  /\ worker' = [worker EXCEPT !.jobs = @ \ {j}]
  /\ UNCHANGED <<workerRest, storeVars, remoteVars, faults, hist>>

\* The worker with messages arriving, its connection staying up.
InitWorkerSync ==
  /\ Start({WorkerMailbox}, BOOLEAN, MaxWorkerFaults, 0, MaxWorkerArrivals)
  /\ clock = NoClock

NextWorkerSync ==
  \/ WInitializeState
  \/ WReady
  \/ WOpenBox
  \/ WBaseline
  \/ WSync
  \/ \E j \in Jobs : WParsed(j)
  \/ \E j \in Jobs : WParseError(j)
  \/ \E j \in Jobs : WInsert(j)
  \/ \E j \in Jobs : WInsertConflict(j)
  \/ \E j \in Jobs : WInsertError(j)
  \/ \E j \in Jobs : WCursorWrite(j)
  \/ \E j \in Jobs : WCursorWriteError(j)
  \/ \E j \in Jobs : WWebhook(j)

SpecWorkerSync == InitWorkerSync /\ [][NextWorkerSync]_vars

\* ==================================================================
\* Claims
\* ==================================================================
\* Mailbox m has only ever had one MailboxManager alive at a time.
OneManager(m) == m \notin overlapped

\* C1: for a mailbox handled by one MailboxManager at a time, no step (a
\* poll's cursor write, a failure of any await of the pipeline, a reconnect, a
\* restart, a manager's re-creation) decreases the durable cursor
\* last_processed_uid.
C1_CursorNeverDecreases ==
  [][\A m \in Mailboxes : OneManager(m)' => dbCursor'[m] >= dbCursor[m]]_vars

\* C1 witness: after failures were injected the durable cursor of a mailbox
\* with one manager stands above its baseline, at 2 or more.
C1_Witness ==
  \E m \in Mailboxes :
    /\ OneManager(m) /\ faults < MaxFaults
    /\ hist[m].baseVal >= 0 /\ dbCursor[m] > hist[m].baseVal /\ dbCursor[m] >= 2

\* C2: whenever the durable cursor is c, every remote message with
\* baseline < identifier <= c has a row in emails (the baseline is the first
\* one written for the mailbox).
C2_CursorNeverPassesUnstored ==
  \A m \in Mailboxes : \A u \in remote[m] :
    (hist[m].baseVal >= 0 /\ hist[m].baseVal < u /\ u <= dbCursor[m])
      => Stored(m, u)

\* C2 with one manager at a time: the same, for the mailboxes that never had
\* two managers alive at once.
C2_OneManager ==
  \A m \in Mailboxes : \A u \in remote[m] :
    (OneManager(m) /\ hist[m].baseVal >= 0 /\ hist[m].baseVal < u
       /\ u <= dbCursor[m])
      => Stored(m, u)

C4_NoBackfill ==
  \A m \in Mailboxes : \A u \in hist[m].pre :
    ~Stored(m, u) /\ posts[m][u] = 0

\* C4 witness: a poll's FETCH has returned a message that was there at the
\* first connect (the highest one, for a range that starts above it), and the
\* loop is about to look at it.
C4_Witness ==
  \E k \in Mgrs :
    /\ mgr[k].mb # 0 /\ mgr[k].ppc = "next" /\ mgr[k].queue # <<>>
    /\ Head(mgr[k].queue) \in hist[mgr[k].mb].pre

\* The new messages of manager k's poll cycle: those above lastUID in the
\* INBOX it fetched.
NewOf(k) == {u \in cyc[k].seen : u > mgr[k].lastUID}

\* Manager k's poll cycle has come to the end of the FETCH stream.
AtEnd(k) ==
  mgr[k].mb # 0 /\ mgr[k].ppc = "next" /\ mgr[k].queue = <<>>

\* C5: a poll cycle of a baselined mailbox with cursor c that fetched k >= 1
\* new messages c+1..c+k, none stored yet, and in which no step failed has at
\* its end inserted the rows of exactly these k, left the durable cursor at
\* c + k and, with WEBHOOK_URL set, issued k webhook calls.
C5_CleanPoll ==
  \A k \in Mgrs :
    LET m == mgr[k].mb
        c == mgr[k].lastUID
        n == Cardinality(NewOf(k))
    IN
    (AtEnd(k) /\ OneManager(m) /\ cyc[k].clean /\ n >= 1
       /\ NewOf(k) = (c + 1)..(c + n))
      => /\ cyc[k].ins = NewOf(k)
         /\ \A u \in NewOf(k) : Stored(m, u)
         /\ dbCursor[m] = c + n
         /\ mgr[k].cursor = c + n
         /\ webhookUrl => cyc[k].nposts = n /\ \A u \in NewOf(k) : posts[m][u] >= 1

\* C5 witness: a clean cycle over two new messages is at its end, with
\* WEBHOOK_URL set.
C5_Witness ==
  \E k \in Mgrs :
    /\ AtEnd(k) /\ OneManager(mgr[k].mb) /\ cyc[k].clean /\ webhookUrl
    /\ Cardinality(NewOf(k)) = 2
    /\ NewOf(k) = (mgr[k].lastUID + 1)..(mgr[k].lastUID + 2)
    /\ cyc[k].nposts = 2

\* C6: a poll cycle whose FETCH returned only messages that have a row
\* already inserts no row, issues no webhook call and leaves the durable
\* cursor at the value it had when the cycle fetched.
C6_Replay ==
  \A k \in Mgrs :
    (mgr[k].mb # 0 /\ OneManager(mgr[k].mb) /\ cyc[k].replay)
      => /\ cyc[k].ins = {}
         /\ cyc[k].nposts = 0
         /\ dbCursor[mgr[k].mb] = cyc[k].c0

\* C6 witness: a replay is at its end after an insert of it hit the
\* uniqueness conflict.
C6_Witness ==
  \E k \in Mgrs :
    AtEnd(k) /\ OneManager(mgr[k].mb) /\ cyc[k].replay /\ cyc[k].conflicts # {}

\* C7 as stated: once an insert of a poll cycle hit 23505 for identifier u
\* and the loop went on, the durable cursor is at u or above, and the cycle
\* has issued webhook calls for the rows it inserted only (none for u).
C7_ConflictAdvancesCursor ==
  \A k \in Mgrs : \A u \in cyc[k].conflicts :
    (mgr[k].mb # 0 /\ OneManager(mgr[k].mb) /\ mgr[k].ppc = "next")
      => /\ dbCursor[mgr[k].mb] >= u
         /\ webhookUrl => cyc[k].nposts = Cardinality(cyc[k].ins)

\* C8: an insert that fails with an error other than 23505 ends the poll
\* cycle in the same step (nothing more is inserted or notified by it); while
\* the identifier u has no row the durable cursor stays below u; and every
\* later FETCH of the mailbox returns u and all identifiers after it that the
\* INBOX holds.
C8_InsertErrorAborts ==
  [][\A k \in Mgrs :
       LET m == mgr[k].mb IN
       /\ (mgr[k].ppc = "insert" /\ m # 0 /\ OneManager(m)'
             /\ hist'[m].retry # hist[m].retry /\ mgr[k].cur \in hist'[m].retry)
            => /\ mgr'[k].ppc = "idle" /\ ~mgr'[k].isPolling
               /\ emails' = emails /\ posts' = posts /\ dbCursor' = dbCursor
       /\ (m # 0 /\ OneManager(m)')
            => \A u \in hist'[m].retry : dbCursor'[m] < u
       /\ (m # 0 /\ OneManager(m)' /\ mgr[k].ppc = "fetch"
             /\ mgr'[k].ppc = "next")
            => \A u \in hist[m].retry :
                 \A v \in remote'[m] : v >= u => v \in Range(mgr'[k].queue)]_vars

\* C8 witness: a later poll has fetched and parsed again an identifier whose
\* insert had failed, and awaits its insert.
C8_Witness ==
  \E k \in Mgrs :
    /\ mgr[k].mb # 0 /\ OneManager(mgr[k].mb) /\ mgr[k].ppc = "insert"
    /\ mgr[k].cur \in hist[mgr[k].mb].retry

\* C9: no manager has more than one pollForNewEmails pipeline in flight.
C9_OnePollInFlight ==
  \A k \in Mgrs : cyc[k].inflight <= 1 /\ (cyc[k].inflight = 1 <=> mgr[k].isPolling)

\* C9 witness: a dispatcher tick comes while the poll of a manager in
\* managedMailboxes, with its session open, is suspended at the webhook call.
C9_Witness ==
  \E m \in Mailboxes :
    /\ started /\ managed[m] # 0
    /\ mgr[managed[m]].ppc = "webhook" /\ mgr[managed[m]].client = "open"
    /\ cyc[managed[m]].inflight = 1

C11_UnassignedRemoved ==
  [][/\ (rec'.pc = "remove" /\ (rec.pc # "remove" \/ rec.cur # rec'.cur))
          => mgr'[rec'.k].client \in {"null", "closed"}
     /\ rec'.pc = "idle"
          => /\ rec'.extra = {}
             /\ \A m \in rec'.removed : managed'[m] = 0]_vars

\* C11 witness: a pass has completed whose removal loop deleted the entry of
\* a mailbox that had been deactivated, and the mailbox has no entry.
C11_Witness ==
  \E m \in Mailboxes :
    rec.pc = "idle" /\ m \in rec.removed /\ ~active[m] /\ managed[m] = 0

\* C12: a mailbox whose manager's initialize() has failed is left out of
\* managedMailboxes (so that the next pass constructs and initializes a
\* manager for it again): every manager in managedMailboxes whose
\* initialize() has returned holds its syncStatus.
C12_FailedInitializeLeftOut ==
  \A m \in Mailboxes :
    (managed[m] # 0 /\ ~(rec.pc = "init" /\ rec.cur = m))
      => mgr[managed[m]].loaded

\* C13: a manager whose connect() or poll has failed with
\* AUTHENTICATIONFAILED is terminated: it is not in managedMailboxes, and it
\* has no connect() in flight and no reconnect timer pending.
C13_AuthFailureTerminates ==
  \A k \in Mgrs :
    mgr[k].authFailed
      => /\ managed[mgr[k].mb] # k
         /\ mgr[k].cpc = "idle" /\ mgr[k].timers = 0
         /\ mgr[k].client \in {"null", "closed"}

\* C14: a mailbox whose manager a poll's AUTHENTICATIONFAILED has taken out
\* of managedMailboxes has no manager afterwards, for as long as the roster
\* row of the mailbox is unchanged and the process runs.
C14_NotRecreatedAfterAuth ==
  \A m \in Mailboxes : hist[m].auth => managed[m] = 0

\* C15: a step in which a connect() or a poll of mailbox a's manager fails
\* with AUTHENTICATIONFAILED leaves every other managed mailbox b as it was:
\* its entry of managedMailboxes, its manager (session included), its poll
\* cycle, its cursor and its rows.  (A mailbox that the reconcile pass in
\* flight found out of the roster is that pass's to remove.)
C15_AuthFailureIsolated ==
  [][\A k \in Mgrs :
       (mgr[k].mb # 0 /\ ~mgr[k].authFailed /\ mgr'[k].authFailed)
         => \A b \in Mailboxes \ {mgr[k].mb} :
              (managed[b] # 0 /\ (rec.pc = "idle" \/ b \in rec.roster))
                => /\ managed'[b] = managed[b]
                   /\ mgr'[managed[b]] = mgr[managed[b]]
                   /\ cyc'[managed[b]] = cyc[managed[b]]
                   /\ dbCursor'[b] = dbCursor[b]
                   /\ {e \in BagToSet(emails') : e[1] = b} = {e \in BagToSet(emails) : e[1] = b}]_vars

\* C15 witness: mailbox a's entry was deleted by an AUTHENTICATIONFAILED
\* poll; since then a poll of mailbox b has stored a row, and b's manager is
\* in managedMailboxes with its session open and its cursor on b's last row.
C15_Witness ==
  \E a \in Mailboxes, b \in Mailboxes :
    /\ a # b /\ hist[a].auth /\ ~hist[b].auth
    /\ managed[b] # 0 /\ mgr[managed[b]].client = "open"
    /\ Cardinality({e \in BagToSet(emails) : e[1] = b}) > hist[a].authRows
    /\ \E u \in Uids : Stored(b, u) /\ dbCursor[b] = u

RECURSIVE Pow2(_)
Pow2(n) == IF n = 0 THEN 1 ELSE 2 * Pow2(n - 1)

\* C16: in the single-mailbox worker the reconnect that the n-th connection
\* loss in a row schedules (n counted from the last 'ready') waits
\* min(RECONNECT_DELAY_BASE_MS * 2^(n-1), RECONNECT_DELAY_MAX_MS): base, twice
\* the base, ... never more than the maximum, and base again after a
\* successful connection.
C16_WorkerBackoff ==
  worker.timer > 0
    => /\ worker.losses >= 1
       /\ worker.timer = Min({RECONNECT_DELAY_BASE_MS * Pow2(worker.losses - 1),
                              RECONNECT_DELAY_MAX_MS})

\* C16 witness: the delays have reached the maximum, a connection has
\* succeeded since, and the first loss after it is retried after the base.
C16_Witness ==
  /\ worker.peak = RECONNECT_DELAY_MAX_MS
  /\ worker.losses = 1 /\ worker.timer = RECONNECT_DELAY_BASE_MS

\* C17: in the multi-mailbox worker the reconnect delay of a manager doubles
\* with each consecutive failed connect(): the reconnect scheduled by the
\* second failure in a row waits twice as long as the one scheduled by the
\* first.
C17_ConnectBackoff ==
  \A k \in Mgrs :
    Len(mgr[k].delays) >= 2 => mgr[k].delays[2] = 2 * mgr[k].delays[1]

\* A manager of managedMailboxes that has completed initialize(), whose
\* session is lost, that never failed with AUTHENTICATIONFAILED, and that
\* has no connect() in flight, no reconnect timer pending and no poll in
\* flight (whose next read would throw and reach the catch block).
Stranded(k) ==
  /\ mgr[k].mb # 0 /\ managed[mgr[k].mb] = k
  /\ mgr[k].loaded /\ ~mgr[k].authFailed
  /\ mgr[k].client = "closed"
  /\ mgr[k].cpc = "idle" /\ mgr[k].timers = 0 /\ mgr[k].ppc = "idle"

\* C18: a manager of managedMailboxes that lost its session for a reason
\* other than an authentication failure has a connect() attempt ahead of it:
\* one in flight, a reconnect timer pending, or a poll in flight that will
\* schedule one.
C18_LostSessionReconnects == \A k \in Mgrs : ~Stranded(k)

\* C19: table emails never holds two rows with the same (mailbox_id, uid);
\* and an insert for a pair that has a row already (the store answering)
\* leaves the table as it is and is a conflict: the identifier is skipped and
\* the poll cycle goes on to the next message.
C19_OneRowPerUid ==
  [][/\ \A e \in BagToSet(emails') : CopiesIn(e, emails') = 1
     /\ \A k \in Mgrs :
          (/\ mgr[k].ppc = "insert" /\ mgr'[k].ppc # "insert"
           /\ Stored(mgr[k].mb, mgr[k].cur) /\ faults' = faults)
            => /\ emails' = emails
               /\ mgr'[k].ppc = "next" /\ mgr'[k].isPolling
               /\ mgr[k].cur \in cyc'[k].conflicts]_vars

\* C19 witness: a poll cycle in flight has had an insert refused for a pair
\* that has a row, the table holds that one row, and the cycle goes on.
C19_Witness ==
  \E k \in Mgrs :
    /\ mgr[k].isPolling /\ mgr[k].ppc = "next"
    /\ cyc[k].conflicts # {}
    /\ \A u \in cyc[k].conflicts : CopiesIn(<<mgr[k].mb, u>>, emails) = 1

\* C20: a webhook call for identifier u that fails changes nothing else: the
\* manager goes to the next message of the same FETCH with the rest of the
\* stream as it was, still polling, without a reconnect timer; the cursor,
\* durable and in memory, is not touched; and the call is not made again
\* (u has had one webhook call for as long as the cycle runs).
C20_WebhookFailureOnlyLogged ==
  [][\A k \in Mgrs :
       /\ (/\ mgr[k].ppc = "webhook" /\ mgr'[k].ppc # "webhook"
           /\ posts'[mgr[k].mb][mgr[k].cur] = posts[mgr[k].mb][mgr[k].cur] + 1
           /\ faults' < faults)
            => /\ mgr'[k].ppc = "next" /\ mgr'[k].isPolling
               /\ mgr'[k].queue = mgr[k].queue
               /\ mgr'[k].timers = mgr[k].timers
               /\ mgr'[k].cursor = mgr[k].cursor
               /\ dbCursor' = dbCursor /\ emails' = emails
       /\ \A u \in cyc'[k].hookFailed : posts'[mgr'[k].mb][u] = 1]_vars

\* C20 witness: in one poll cycle the webhook call for u failed after the
\* cursor was advanced to u, u has had that one call, and a later identifier
\* of the same FETCH has been stored since.
C20_Witness ==
  \E k \in Mgrs : \E u \in cyc[k].hookFailed : \E v \in cyc[k].ins :
    /\ v > u /\ posts[mgr[k].mb][u] = 1
    /\ dbCursor[mgr[k].mb] >= u /\ mgr[k].cursor >= u

\* C21: no message is lost: a message that arrived while its baselined
\* mailbox was offline (identifier above the durable cursor) and that no poll
\* has fetched yet is still above the durable cursor, for the next poll to
\* fetch.
C21_NoOfflineMessageLost ==
  \A m \in Mailboxes : \A u \in hist[m].offline : u > dbCursor[m]

\* Two MailboxManager objects are alive on mailbox m, both with the baseline
\* loaded (each polls from its own syncStatus).
TwoManagers(m) ==
  \E j, k \in Mgrs :
    /\ j # k /\ mgr[j].mb = m /\ mgr[k].mb = m
    /\ mgr[j].init /\ mgr[k].init

\* C22: while two managers process the same mailbox, no step decreases the
\* mailbox's durable cursor.
C22_TwoManagersCursorNeverDecreases ==
  [][\A m \in Mailboxes :
       TwoManagers(m) => dbCursor'[m] >= dbCursor[m]]_vars

\* C23: after SIGINT no manager opens a new connection and no poll starts:
\* between the signal and the exit of the process no step makes a manager's
\* client a new one and no step sets a manager's isPolling.
C23_QuietAfterSigint ==
  [][sigint.pc \in {"closing", "grace"}
       => \A k \in Mgrs :
            /\ ~(mgr[k].client # "new" /\ mgr'[k].client = "new")
            /\ ~(~mgr[k].isPolling /\ mgr'[k].isPolling)]_vars

C25_PoisonMessageBlocks ==
  \A m \in Mailboxes : \A u \in hist[m].unparsed :
    /\ dbCursor[m] < u
    /\ \A k \in Mgrs : mgr[k].mb = m /\ mgr[k].init => mgr[k].cursor < u
    /\ \A v \in 1..MaxUid : v > u => ~Stored(m, v)
    /\ \A k \in Mgrs :
         (/\ mgr[k].mb = m /\ u \in cyc[k].seen
          /\ mgr[k].ppc \in {"next", "insert", "cursor", "webhook"})
           => u \in Range(mgr[k].queue)

\* The parser has thrown on u, a later cycle has fetched u again together
\* with a message above it, and is about to parse u.
C25_Witness ==
  \E k \in Mgrs :
    /\ mgr[k].ppc = "next" /\ mgr[k].queue # <<>>
    /\ Head(mgr[k].queue) \in hist[mgr[k].mb].unparsed
    /\ Len(mgr[k].queue) > 1
    /\ mgr[k].timers = 0

\* C26: a parse failure affects only the offending message: in the step in
\* which simpleParser throws on the message at the head of a manager's
\* stream, the manager goes on with the rest of the stream, still polling,
\* its session open.
C26_ParseFailureSkipsOneMessage ==
  [][\A k \in Mgrs :
       (/\ mgr[k].ppc = "next" /\ mgr[k].queue # <<>>
        /\ Head(mgr[k].queue) \notin hist[mgr[k].mb].unparsed
        /\ Head(mgr[k].queue) \in hist'[mgr[k].mb].unparsed
        /\ mgr'[k] # mgr[k])
         => /\ mgr'[k].isPolling /\ mgr'[k].ppc = "next"
            /\ mgr'[k].client = "open"
            /\ mgr'[k].queue = Tail(mgr[k].queue)]_vars

\* C27: the webhook is called at most once for a message, whatever
\* re-fetches, restarts and replays happen, and only for a message whose row
\* is in emails.
C27_WebhookAtMostOnceAfterInsert ==
  \A m \in Mailboxes : \A u \in 1..MaxUid :
    /\ posts[m][u] <= 1
    /\ posts[m][u] > 0 => Stored(m, u)

\* A message whose webhook call was made has been fetched again by a later
\* cycle, whose insert hit the unique constraint, and that cycle has gone on.
C27_Witness ==
  \E k \in Mgrs : \E u \in cyc[k].conflicts :
    /\ posts[mgr[k].mb][u] = 1 /\ u \notin cyc[k].ins
    /\ mgr[k].ppc = "next" /\ mgr[k].cur = 0

\* C28: pollForNewEmails is a no-op while a poll is in flight, before the
\* baseline, and while there is no open session: a step in which a manager's
\* polling flag is set starts from a manager that is baselined, not polling,
\* and holds an open session.
C28_PollOnlyWithOpenSession ==
  [][\A k \in Mgrs :
       (~mgr[k].isPolling /\ mgr'[k].isPolling)
         => mgr[k].init /\ mgr[k].client = "open"]_vars

\* C29: a manager's pollingInterval is at least the base and less than the
\* base plus 5000 ms and no step changes it, and between two consecutive
\* polls of a manager that the dispatcher started more than its
\* pollingInterval has elapsed.
C29_PollsMoreThanIntervalApart ==
  [][\A k \in Mgrs :
       /\ clock'.pollingInterval[k] = clock.pollingInterval[k]
       /\ POLLING_INTERVAL_BASE_MS <= clock.pollingInterval[k]
       /\ clock.pollingInterval[k] < POLLING_INTERVAL_BASE_MS + POLLING_JITTER_MS
       /\ clock'.prevStart[k] # -1
            => clock'.lastStart[k] - clock'.prevStart[k]
                 > clock.pollingInterval[k]]_vars

\* A manager with a jittered interval is in its second poll, which the
\* dispatcher started at the first tick after the interval had elapsed.
C29_Witness ==
  \E k \in Mgrs :
    /\ mgr[k].isPolling /\ clock.prevStart[k] # -1
    /\ clock.lastStart[k] = clock.now
    /\ clock.pollingInterval[k] > POLLING_INTERVAL_BASE_MS
    /\ clock.lastStart[k] - clock.prevStart[k]
         < clock.pollingInterval[k] + DISPATCH_INTERVAL_MS + MaxTimerLag

\* C30: once initial_sync_completed_at of a mailbox is set, no step clears
\* it, and no connect() of a manager of the mailbox, however it returns,
\* changes the mailbox's cursor.
C30_BaselineOnlyOnce ==
  [][\A m \in Mailboxes :
       dbInit[m] =>
         /\ dbInit'[m]
         /\ \A k \in Mgrs :
              (/\ mgr[k].mb = m /\ mgr'[k].mb = m
               /\ mgr[k].cpc # "idle" /\ mgr'[k].cpc = "idle")
                => dbCursor'[m] = dbCursor[m]]_vars

\* C31: in the single-mailbox worker last_processed_uid, in the row and in
\* syncStatus, never decreases, and it is never at or above a message that
\* failed to parse or to save and is not stored.
C31_WorkerCursorSequential ==
  [][/\ dbCursor'[WorkerMailbox] >= dbCursor[WorkerMailbox]
     /\ worker'.cursor >= worker.cursor
     /\ \A u \in worker'.failed \cup hist'[WorkerMailbox].unparsed :
          /\ Stored(WorkerMailbox, u)' \/ dbCursor'[WorkerMailbox] < u
          /\ Stored(WorkerMailbox, u)' \/ worker'.cursor < u]_vars

\* The pass goes on from where it is: to initialize() of the next roster
\* mailbox without an entry, else to disconnect() of the next entry out of
\* the roster, else to its end.
PassGoesOn ==
  LET cand == {m \in rec.todo : managed[m] = 0}
      rem == {m \in Mailboxes : managed[m] # 0 /\ m \notin rec.roster}
  IN
  /\ rec'.roster = rec.roster \/ rec'.pc = "idle"
  /\ cand # {} => /\ rec'.pc = "init" /\ rec'.cur = Min(cand)
                  /\ managed'[Min(cand)] # 0
  /\ (cand = {} /\ rem # {}) => rec'.pc = "remove" /\ rec'.cur \in rem
  /\ (cand = {} /\ rem = {}) => rec'.pc = "idle"

\* C32: the step in which initialize() or connect() of the mailbox a
\* reconcile pass is adding fails does not stop the pass: the remaining
\* mailboxes of the roster are added and the removal loop runs, and the pass
\* ends only after them (the interval then starts the next one).
C32_FailureDoesNotStopPass ==
  [][/\ (/\ rec.pc = "init" /\ mgr'[rec.k].mb = rec.cur
         /\ ~mgr'[rec.k].loaded
         /\ (rec'.pc # "init" \/ rec'.cur # rec.cur))
          => PassGoesOn
     /\ (/\ rec.pc = "connect" /\ mgr[rec.k].cpc = "open"
         /\ mgr'[rec.k].cpc = "idle" /\ mgr'[rec.k].client = "closed"
         /\ mgr'[rec.k].timers = mgr[rec.k].timers + 1)
          => PassGoesOn]_vars

\* initialize() of the first mailbox's manager has failed and the same pass
\* is at initialize() of the second mailbox.
C32_Witness ==
  /\ rec.pc = "init" /\ rec.cur = 2 /\ ~started
  /\ managed[1] # 0 /\ ~mgr[managed[1]].loaded
  /\ managed[2] # 0

\* Manager k is of a mailbox whose entry of managedMailboxes is not k, and
\* only a reconcile pass can have deleted it (no poll of the mailbox has
\* failed with AUTHENTICATIONFAILED).
RemovedByPass(k) ==
  /\ mgr[k].mb # 0 /\ managed[mgr[k].mb] # k
  /\ ~hist[mgr[k].mb].auth

\* C33: a manager that a reconcile pass has removed opens no new connection,
\* and no step of it changes a cursor row or the table emails.
C33_RemovedManagerIsQuiet ==
  [][\A k \in Mgrs :
       (RemovedByPass(k) /\ mgr'[k].mb = mgr[k].mb)
         => /\ ~(mgr[k].client # "new" /\ mgr'[k].client = "new")
            /\ mgr'[k] # mgr[k]
                 => dbCursor' = dbCursor /\ emails' = emails]_vars

\* A manager of managedMailboxes that has completed initialize() and whose
\* connect() has returned with the session open, but whose memory holds no
\* initial_sync_completed_at, the store holding none either: no connect() is
\* in flight, no reconnect timer is pending, and every poll returns at its
\* guard.
Unbaselined(k) ==
  /\ mgr[k].mb # 0 /\ managed[mgr[k].mb] = k
  /\ mgr[k].loaded /\ ~mgr[k].init /\ ~dbInit[mgr[k].mb]
  /\ mgr[k].client = "open"
  /\ mgr[k].cpc = "idle" /\ mgr[k].timers = 0 /\ mgr[k].ppc = "idle"

\* C34: a manager whose baseline write failed during its first connect() has
\* a later attempt at the baseline ahead of it: it is never left connected,
\* without a baseline, with no connect() in flight and no reconnect timer
\* pending (its polls returning at the guard until the baseline is set).
C34_BaselineRetried == \A k \in Mgrs : ~Unbaselined(k)

\* C35: a poll cycle's pipeline handles, inserts and notifies only messages
\* whose identifier is above the cursor the cycle read at its start
\* (lastUID), whatever the FETCH of lastUID+1:* has returned.
C35_NothingAtOrBelowLastUID ==
  [][\A k \in Mgrs :
       mgr[k].mb # 0 =>
         /\ mgr[k].ppc \in {"insert", "cursor", "webhook"}
              => mgr[k].cur > mgr[k].lastUID
         /\ (mgr[k].ppc \in {"insert", "webhook"} /\ mgr'[k] # mgr[k]) =>
              \A u \in Uids :
                (\/ CopiesIn(<<mgr[k].mb, u>>, emails')
                      > CopiesIn(<<mgr[k].mb, u>>, emails)
                 \/ posts'[mgr[k].mb][u] > posts[mgr[k].mb][u])
                  => u > mgr[k].lastUID]_vars

\* C35 witness: a poll cycle whose FETCH of lastUID+1:* found no message
\* above lastUID in the INBOX, and so returned the highest one, has come to
\* the end of the stream without inserting anything.
C35_Witness ==
  \E k \in Mgrs :
    /\ AtEnd(k) /\ cyc[k].inflight > 0
    /\ cyc[k].seen # {} /\ Max(cyc[k].seen) <= mgr[k].lastUID
    /\ cyc[k].ins = {} /\ cyc[k].nposts = 0

\* C36: for a mailbox handled by one MailboxManager at a time, the
\* manager's syncStatus, once loaded, equals the mailbox's row (cursor and
\* baseline flag) and changes only in a step that writes the same value to
\* the row; a failed cursor write for message u leaves both as they are,
\* below u, with u's row stored (the next poll fetches u again and its insert
\* conflicts).
C36_MemoryFollowsStore ==
  [][\A k \in Mgrs :
       (mgr[k].mb # 0 /\ mgr[k].loaded /\ OneManager(mgr[k].mb)) =>
         /\ mgr[k].cursor = dbCursor[mgr[k].mb]
         /\ mgr[k].init = dbInit[mgr[k].mb]
         /\ (mgr'[k].mb = mgr[k].mb /\ mgr'[k].cursor # mgr[k].cursor)
              => dbCursor'[mgr[k].mb] = mgr'[k].cursor
         /\ (/\ mgr[k].ppc = "cursor" /\ mgr'[k].ppc # "cursor"
             /\ mgr'[k].mb = mgr[k].mb
             /\ dbCursor'[mgr[k].mb] # mgr[k].cur)
              => /\ mgr'[k].cursor = mgr[k].cursor
                 /\ dbCursor' = dbCursor
                 /\ mgr'[k].cursor < mgr[k].cur
                 /\ BagIn(<<mgr[k].mb, mgr[k].cur>>, emails')]_vars

\* C36 witness: the cursor write for a message the pipeline has just stored
\* has failed, and the pipeline is at the webhook call: memory and row hold
\* the same cursor, below the message.
C36_Witness ==
  \E k \in Mgrs :
    /\ mgr[k].mb # 0 /\ OneManager(mgr[k].mb)
    /\ mgr[k].ppc = "webhook" /\ mgr[k].cur \in cyc[k].ins
    /\ mgr[k].cursor < mgr[k].cur
    /\ dbCursor[mgr[k].mb] = mgr[k].cursor

TypeOK ==
  /\ \A m \in Mailboxes : dbCursor[m] \in 0..MaxUid /\ managed[m] \in {0} \cup Mgrs
  /\ \A k \in Mgrs : mgr[k].timers \in 0..MaxTimers /\ cyc[k].inflight \in 0..1
====
